---- MODULE Spec2Model ----
(***************************************************************************)
(* Request-validation pipeline of the WOD tracker backend:                 *)
(*   - the Zod schemas of src/validation/user.schema.ts, evaluated the way *)
(*     the middleware evaluates them (schema.parseAsync);                  *)
(*   - the middleware validate / validateMultiple of                       *)
(*     src/middleware/validate.middleware.ts, as a state machine over one  *)
(*     request, with the schema evaluations settling in any order;         *)
(*   - the Express application of the main entry point (body parsers,      *)
(*     request logging, routes, 404 handler, global error handler), as a   *)
(*     state machine over one request.                                     *)
(*                                                                         *)
(* JSON values are tagged records.  A string value is a sequence of        *)
(* one-character strings, so that length, trimming, parseInt and the       *)
(* regular expressions are computed and not assumed.  A number is          *)
(* v + f/1000 (f in 0..999).  An object is a function from its keys.       *)
(***************************************************************************)
EXTENDS Integers, Sequences, FiniteSets, TLC

VARIABLES
  nodeEnv,      \* process.env.NODE_ENV
  clock,        \* Date.now(), in milliseconds
  mode,         \* which middleware handles the request
  schemas,      \* target -> schema name given to the middleware ("none": no schema)
  abortEarly,   \* options.abortEarly of validate
  raw,          \* the request's payload slots as received
  req,          \* the request's payload slots now
  pc,           \* position of the middleware's async function
  evals,        \* target -> state of its parseAsync promise
  allState,     \* state of the Promise.all / awaited promise
  order,        \* history: the targets in the order their evaluations settled
  nextCalls,    \* number of calls of next()
  nextThrew,    \* next() threw synchronously
  responses,    \* the responses sent, in order
  phase,        \* schema registry: position of the evaluation script
  schemaName,   \* schema registry: the schema under evaluation
  input,        \* schema registry: the raw input
  outcome1,     \* schema registry: outcome of evaluating the input
  outcome2,     \* schema registry: outcome of the second evaluation
  stage,        \* application: position of the request in the middleware stack
  httpRequest,  \* application: the HTTP request (method, path, kind of body)
  unhandled,    \* application: the error passed to the global error handler
  logs,         \* application: number of lines written by the request logger
  sent          \* application: the responses sent, in order

vars == <<nodeEnv, clock, mode, schemas, abortEarly, raw, req, pc, evals, allState,
          order, nextCalls, nextThrew, responses,
          phase, schemaName, input, outcome1, outcome2,
          stage, httpRequest, unhandled, logs, sent>>

gateVars == <<mode, schemas, abortEarly, raw, req, pc, evals, allState,
              order, nextCalls, nextThrew, responses>>

registryVars == <<phase, schemaName, input, outcome1, outcome2>>

serverVars == <<stage, httpRequest, unhandled, logs, sent>>

-----------------------------------------------------------------------------
(* Bounds of the model *)

\* longest whitespace padding put around a sample string
MaxPad == 1
\* number of clock ticks (of TickMs) a behaviour may take
MaxTicks == 2
\* Date.now() when the request arrives, and the length of one tick (milliseconds)
ClockStart == 1000000
TickMs == 1000

-----------------------------------------------------------------------------
(* JSON values *)

Str(s) == [t |-> "string", v |-> s]
Dec(n, m) == [t |-> "number", v |-> n, f |-> m]
Num(n) == Dec(n, 0)
NaN == [t |-> "nan"]
Null == [t |-> "null"]
Undefined == [t |-> "undefined"]
Bool(b) == [t |-> "boolean", v |-> b]
Obj(o) == [t |-> "object", v |-> o]
EmptyObj == Obj(<<>>)

\* zod's getParsedType: the name of a value's type
ParsedType(x) == x.t

HasKey(o, k) == k \in DOMAIN o.v
\* data[key]: undefined when the key is missing
Get(o, k) == IF HasKey(o, k) THEN o.v[k] ELSE Undefined

\* the object o with key k set to x
SetKey(o, k, x) ==
  Obj([j \in (DOMAIN o.v) \cup {k} |-> IF j = k THEN x ELSE o.v[j]])

\* numbers compared as v + f/1000
NumLE(a, b) == a.v * 1000 + a.f <= b.v * 1000 + b.f
NumLT(a, b) == a.v * 1000 + a.f < b.v * 1000 + b.f
IsInteger(a) == a.f = 0

-----------------------------------------------------------------------------
(* Strings *)

Whitespace == {" ", "\t"}
Digits == {"0", "1", "2", "3", "4", "5", "6", "7", "8", "9"}
HexLetters == {"a", "b", "c", "d", "e", "f"}
LowerLetters == HexLetters \cup {"g", "h", "p", "s", "t", "x", "z"}
UpperLetters == {"A", "B", "F", "G", "X", "Z"}

DigitValue(c) ==
  CASE c = "0" -> 0 [] c = "1" -> 1 [] c = "2" -> 2 [] c = "3" -> 3 [] c = "4" -> 4
    [] c = "5" -> 5 [] c = "6" -> 6 [] c = "7" -> 7 [] c = "8" -> 8 [] c = "9" -> 9

\* n copies of the character c
RECURSIVE Rep(_, _)
Rep(c, n) == IF n <= 0 THEN <<>> ELSE <<c>> \o Rep(c, n - 1)

RECURSIVE TrimStart(_)
TrimStart(s) ==
  IF s # <<>> /\ Head(s) \in Whitespace THEN TrimStart(Tail(s)) ELSE s

RECURSIVE TrimEnd(_)
TrimEnd(s) ==
  IF s # <<>> /\ s[Len(s)] \in Whitespace THEN TrimEnd(SubSeq(s, 1, Len(s) - 1)) ELSE s

\* String.prototype.trim
Trim(s) == TrimEnd(TrimStart(s))

\* the value of the longest prefix of digits of s, acc being the value so far
RECURSIVE DigitsPrefix(_, _)
DigitsPrefix(s, acc) ==
  IF s # <<>> /\ Head(s) \in Digits
  THEN DigitsPrefix(Tail(s), acc * 10 + DigitValue(Head(s)))
  ELSE acc

\* parseInt(s, 10): leading whitespace is skipped, a sign is read, then the longest
\* prefix of digits; what follows the digits is ignored; NaN when there is no digit
ParseInt(s) ==
  LET t == TrimStart(s)
      neg == t # <<>> /\ Head(t) = "-"
      u == IF t # <<>> /\ Head(t) \in {"-", "+"} THEN Tail(t) ELSE t
  IN IF u = <<>> \/ Head(u) \notin Digits THEN NaN
     ELSE IF neg THEN Num(0 - DigitsPrefix(u, 0)) ELSE Num(DigitsPrefix(u, 0))

\* /^[a-zA-Z0-9_]+$/
MatchesWord(s) ==
  /\ s # <<>>
  /\ \A i \in 1..Len(s) : s[i] \in LowerLetters \cup UpperLetters \cup Digits \cup {"_"}

\* new URL(s) does not throw: a scheme (a letter, then letters or digits) and ":";
\* for http and https a host must follow the slashes
IsUrl(s) ==
  \E i \in 2..Len(s) :
    /\ s[i] = ":"
    /\ s[1] \in LowerLetters \cup UpperLetters
    /\ \A j \in 1..(i - 1) : s[j] \in LowerLetters \cup UpperLetters \cup Digits
    /\ LET scheme == SubSeq(s, 1, i - 1)
           special == scheme \in {<<"h", "t", "t", "p">>, <<"h", "t", "t", "p", "s">>}
       IN special =>
            \E k \in (i + 1)..Len(s) :
              /\ s[k] \in LowerLetters \cup UpperLetters \cup Digits
              /\ \A j \in (i + 1)..(k - 1) : s[j] = "/"

\* /^[a-f0-9]{64}$/i: upper-case letters match too
MatchesSha256HexAnyCase(s) ==
  /\ Len(s) = 64
  /\ \A i \in 1..Len(s) : s[i] \in HexLetters \cup Digits \cup {"A", "B", "C", "D", "E", "F"}

\* /^[a-f0-9]{64}$/
MatchesSha256Hex(s) ==
  /\ Len(s) = 64
  /\ \A i \in 1..Len(s) : s[i] \in HexLetters \cup Digits

Letters == LowerLetters \cup UpperLetters

\* String.prototype.toLowerCase, one character
LowerOf(c) ==
  CASE c = "A" -> "a" [] c = "B" -> "b" [] c = "F" -> "f" [] c = "G" -> "g"
    [] c = "X" -> "x" [] c = "Z" -> "z" [] OTHER -> c

ToLowerCase(s) == [i \in 1..Len(s) |-> LowerOf(s[i])]

\* one piece of a regular expression: between min and max characters of a class
\* (no upper limit when unbounded)
Tok(set, min, max) == [set |-> set, min |-> min, max |-> max, unbounded |-> FALSE]
OneOrMore(set) == [set |-> set, min |-> 1, max |-> 1, unbounded |-> TRUE]

\* s matches the pieces in sequence, from its first to its last character
RECURSIVE MatchTokens(_, _)
MatchTokens(tokens, s) ==
  IF tokens = <<>> THEN s = <<>>
  ELSE LET t == Head(tokens)
           most == IF t.unbounded \/ t.max > Len(s) THEN Len(s) ELSE t.max
       IN \E n \in t.min..most :
            /\ \A i \in 1..n : s[i] \in t.set
            /\ MatchTokens(Tail(tokens), SubSeq(s, n + 1, Len(s)))

\* /^[+]?[(]?[0-9]{1,4}[)]?[-\s.]?[(]?[0-9]{1,4}[)]?[-\s.]?[0-9]{1,9}$/
MatchesPhone(s) ==
  MatchTokens(<<Tok({"+"}, 0, 1), Tok({"("}, 0, 1), Tok(Digits, 1, 4), Tok({")"}, 0, 1),
                Tok({"-", "."} \cup Whitespace, 0, 1), Tok({"("}, 0, 1), Tok(Digits, 1, 4),
                Tok({")"}, 0, 1), Tok({"-", "."} \cup Whitespace, 0, 1),
                Tok(Digits, 1, 9)>>, s)

\* /^[A-Za-z_]+\/[A-Za-z_]+$/
MatchesTimezone(s) ==
  MatchTokens(<<OneOrMore(Letters \cup {"_"}), Tok({"/"}, 1, 1),
                OneOrMore(Letters \cup {"_"})>>, s)

\* zod's email pattern,
\* /^(?!\.)(?!.*\.\.)([A-Z0-9_'+\-\.]*)[A-Z0-9_+-]@([A-Z0-9][A-Z0-9\-]*\.)+[A-Z]{2,}$/i
IsEmail(s) ==
  /\ s # <<>> /\ s[1] # "."
  /\ \A i \in 1..(Len(s) - 1) : ~(s[i] = "." /\ s[i + 1] = ".")
  /\ \E at \in 2..(Len(s) - 1) :
       /\ s[at] = "@"
       /\ \A i \in 1..(at - 1) : s[i] \in Letters \cup Digits \cup {"_", "'", "+", "-", "."}
       /\ s[at - 1] \in Letters \cup Digits \cup {"_", "+", "-"}
       /\ \A i \in (at + 1)..Len(s) :
            /\ s[i] \in Letters \cup Digits \cup {"-", "."}
            /\ (i = at + 1 \/ s[i - 1] = ".") => s[i] \in Letters \cup Digits
       /\ \E dot \in (at + 2)..(Len(s) - 2) :
            /\ s[dot] = "."
            /\ \A i \in (dot + 1)..Len(s) : s[i] \in Letters

\* zod's datetime pattern without offset: /^\d{4}-\d{2}-\d{2}T\d{2}:\d{2}:\d{2}(\.\d+)?Z$/
IsDatetime(s) ==
  LET date == <<Tok(Digits, 4, 4), Tok({"-"}, 1, 1), Tok(Digits, 2, 2), Tok({"-"}, 1, 1),
                Tok(Digits, 2, 2), Tok({"T"}, 1, 1), Tok(Digits, 2, 2), Tok({":"}, 1, 1),
                Tok(Digits, 2, 2), Tok({":"}, 1, 1), Tok(Digits, 2, 2)>>
  IN \/ MatchTokens(date \o <<Tok({"Z"}, 1, 1)>>, s)
     \/ MatchTokens(date \o <<Tok({"."}, 1, 1), OneOrMore(Digits), Tok({"Z"}, 1, 1)>>, s)

\* the number written by the digits s[from..to]
DigitsAt(s, from, to) == DigitsPrefix(SubSeq(s, from, to), 0)

IsLeapYear(y) == y % 4 = 0 /\ (y % 100 # 0 \/ y % 400 = 0)

DaysInMonth(y, m) ==
  IF m = 2 THEN (IF IsLeapYear(y) THEN 29 ELSE 28)
  ELSE IF m \in {4, 6, 9, 11} THEN 30 ELSE 31

\* days from 1970-01-01 to the day d of month m of year y
DaysFromEpoch(y, m, d) ==
  LET yy == IF m <= 2 THEN y - 1 ELSE y
      era == yy \div 400
      yoe == yy - era * 400
      mp == IF m > 2 THEN m - 3 ELSE m + 9
      doy == (153 * mp + 2) \div 5 + d - 1
      doe == yoe * 365 + yoe \div 4 - yoe \div 100 + doy
  IN era * 146097 + doe - 719468

\* a point in time: whole days since the epoch and milliseconds into that day
Instant(days, ms) == [t |-> "date", days |-> days, ms |-> ms]

MsPerDay == 24 * 60 * 60 * 1000

\* new Date(), clk being Date.now()
InstantOfClock(clk) == Instant(clk \div MsPerDay, clk % MsPerDay)

\* new Date(s) for a string that matches IsDatetime; NaN (Invalid Date) when a part
\* is out of range
DateValue(s) ==
  LET y == DigitsAt(s, 1, 4)
      m == DigitsAt(s, 6, 7)
      d == DigitsAt(s, 9, 10)
      h == DigitsAt(s, 12, 13)
      mi == DigitsAt(s, 15, 16)
      sec == DigitsAt(s, 18, 19)
      frac == IF s[20] = "." THEN SubSeq(s, 21, Len(s) - 1) \o <<"0", "0">> ELSE <<"0">>
      ms == DigitsAt(frac, 1, IF Len(frac) < 3 THEN Len(frac) ELSE 3)
  IN IF m \notin 1..12 \/ d \notin 1..DaysInMonth(y, m) \/ h > 23 \/ mi > 59 \/ sec > 59
     THEN NaN
     ELSE Instant(DaysFromEpoch(y, m, d), ((h * 60 + mi) * 60 + sec) * 1000 + ms)

\* new Date(s): a string that is no date at all gives Invalid Date
DateOf(s) == IF IsDatetime(s) THEN DateValue(s) ELSE NaN

\* a <= b on dates; false when one of them is Invalid Date
DateLE(a, b) ==
  /\ a # NaN /\ b # NaN
  /\ a.days < b.days \/ (a.days = b.days /\ a.ms <= b.ms)

\* (now.getTime() - birth.getTime()) / (1000 * 60 * 60 * 24 * 365.25) <= years, for a
\* whole number of years that is a multiple of 4
AgeAtMost(birth, now, years) ==
  /\ birth # NaN /\ now # NaN
  /\ LET days == (years \div 4) * 1461
         gone == now.days - birth.days
     IN gone < days \/ (gone = days /\ now.ms <= birth.ms)

-----------------------------------------------------------------------------
(* Zod: issues and checks *)

\* one ZodIssue; received is the issue's own "received" property, Undefined when
\* the issue has none (only invalid_type and invalid_enum_value issues have one)
Issue(code, path, message, received) ==
  [code |-> code, path |-> path, message |-> message, received |-> received]

TypeName(n) == [t |-> "typename", v |-> n]

\* zod's default error map for invalid_type
DefaultTypeMessage(expected, x) ==
  IF x = Undefined THEN "Required"
  ELSE "Expected " \o expected \o ", received " \o ParsedType(x)

\* the schema's own error map, made from required_error / invalid_type_error
TypeMessage(fd, x) ==
  IF x = Undefined /\ fd.requiredError # "" THEN fd.requiredError
  ELSE IF x # Undefined /\ fd.invalidTypeError # "" THEN fd.invalidTypeError
  ELSE DefaultTypeMessage(fd.type, x)

Check(kind, value, message) == [kind |-> kind, value |-> value, message |-> message]

\* one parse result: status is "valid", "dirty" (issues, value kept) or "aborted"
Result(status, value, issues) == [status |-> status, value |-> value, issues |-> issues]

\* ZodString._parse: the checks run in the order of the chain, each on the data as
\* the checks before it left it (trim and toLowerCase replace the data)
RECURSIVE StringChecks(_, _, _)
StringChecks(checks, path, r) ==
  IF checks = <<>> THEN r
  ELSE
    LET c == Head(checks)
        s == r.value.v
        fail(code) ==
          Result("dirty", r.value, Append(r.issues, Issue(code, path, c.message, Undefined)))
        after ==
          CASE c.kind = "min" -> IF Len(s) < c.value THEN fail("too_small") ELSE r
            [] c.kind = "max" -> IF Len(s) > c.value THEN fail("too_big") ELSE r
            [] c.kind = "word" -> IF ~MatchesWord(s) THEN fail("invalid_string") ELSE r
            [] c.kind = "url" -> IF ~IsUrl(s) THEN fail("invalid_string") ELSE r
            [] c.kind = "sha256hex" ->
                 IF ~MatchesSha256Hex(s) THEN fail("invalid_string") ELSE r
            [] c.kind = "email" -> IF ~IsEmail(s) THEN fail("invalid_string") ELSE r
            [] c.kind = "phone" -> IF ~MatchesPhone(s) THEN fail("invalid_string") ELSE r
            [] c.kind = "timezone" ->
                 IF ~MatchesTimezone(s) THEN fail("invalid_string") ELSE r
            [] c.kind = "datetime" -> IF ~IsDatetime(s) THEN fail("invalid_string") ELSE r
            [] c.kind = "trim" -> Result(r.status, Str(Trim(s)), r.issues)
            [] c.kind = "toLowerCase" -> Result(r.status, Str(ToLowerCase(s)), r.issues)
    IN StringChecks(Tail(checks), path, after)

\* ZodNumber._parse with .min() and .max() taken as exclusive bounds (.gt(), .lt())
RECURSIVE NumberChecksExclusive(_, _, _)
NumberChecksExclusive(checks, path, r) ==
  IF checks = <<>> THEN r
  ELSE
    LET c == Head(checks)
        n == r.value
        fail(code, rec) ==
          Result("dirty", r.value, Append(r.issues, Issue(code, path, c.message, rec)))
        after ==
          CASE c.kind = "int" ->
                 IF ~IsInteger(n) THEN fail("invalid_type", TypeName("float")) ELSE r
            [] c.kind \in {"gt", "gte"} ->
                 IF ~NumLT(Num(c.value), n) THEN fail("too_small", Undefined) ELSE r
            [] c.kind = "lte" ->
                 IF ~NumLT(n, Num(c.value)) THEN fail("too_big", Undefined) ELSE r
    IN NumberChecksExclusive(Tail(checks), path, after)

\* ZodNumber._parse, after the type test
RECURSIVE NumberChecks(_, _, _)
NumberChecks(checks, path, r) ==
  IF checks = <<>> THEN r
  ELSE
    LET c == Head(checks)
        n == r.value
        fail(code, rec) ==
          Result("dirty", r.value, Append(r.issues, Issue(code, path, c.message, rec)))
        after ==
          CASE c.kind = "int" ->
                 IF ~IsInteger(n) THEN fail("invalid_type", TypeName("float")) ELSE r
            [] c.kind = "gt" ->
                 IF ~NumLT(Num(c.value), n) THEN fail("too_small", Undefined) ELSE r
            [] c.kind = "gte" ->
                 IF ~NumLE(Num(c.value), n) THEN fail("too_small", Undefined) ELSE r
            [] c.kind = "lte" ->
                 IF ~NumLE(n, Num(c.value)) THEN fail("too_big", Undefined) ELSE r
    IN NumberChecks(Tail(checks), path, after)

\* ZodString / ZodNumber / ZodBoolean / ZodEnum ._parse on a value that is neither caught by
\* optional / nullable / default: a wrong type aborts with one invalid_type issue
ParseBase(fd, path, x) ==
  CASE fd.type = "string" ->
         IF ParsedType(x) # "string"
         THEN Result("aborted", x,
                <<Issue("invalid_type", path, TypeMessage(fd, x), TypeName(ParsedType(x)))>>)
         ELSE StringChecks(fd.checks, path, Result("valid", x, <<>>))
    [] fd.type = "number" ->
         IF ParsedType(x) # "number"
         THEN Result("aborted", x,
                <<Issue("invalid_type", path, TypeMessage(fd, x), TypeName(ParsedType(x)))>>)
         ELSE NumberChecks(fd.checks, path, Result("valid", x, <<>>))
    [] fd.type = "boolean" ->
         IF ParsedType(x) # "boolean"
         THEN Result("aborted", x,
                <<Issue("invalid_type", path, TypeMessage(fd, x), TypeName(ParsedType(x)))>>)
         ELSE Result("valid", x, <<>>)
    [] fd.type = "enum" ->
         IF ParsedType(x) # "string"
         THEN Result("aborted", x,
                <<Issue("invalid_type", path, fd.enumMessage, TypeName(ParsedType(x)))>>)
         ELSE IF x.v \notin fd.enumValues
         THEN Result("aborted", x,
                <<Issue("invalid_enum_value", path, fd.enumMessage, x)>>)
         ELSE Result("valid", x, <<>>)

-----------------------------------------------------------------------------
(* Zod: fields, effects and objects, in async mode (parseAsync) *)

\* a field of a z.object shape: the base type and its checks, the wrappers
\* (.optional(), .nullable(), .default(v)), and the chain of effects
\* (.transform(f), .refine(p, message)) in the order they are chained
Field(name, type, checks) ==
  [name |-> name, type |-> type, checks |-> checks,
   requiredError |-> "", invalidTypeError |-> "",
   optional |-> FALSE, nullable |-> FALSE, hasDefault |-> FALSE, default |-> Undefined,
   effects |-> <<>>, enumValues |-> {}, enumMessage |-> ""]

EnumField(name, values, message) ==
  [Field(name, "enum", <<>>) EXCEPT !.enumValues = values, !.enumMessage = message]

TypeErrors(fd, required, invalid) ==
  [fd EXCEPT !.requiredError = required, !.invalidTypeError = invalid]
Optional(fd) == [fd EXCEPT !.optional = TRUE]
Nullable(fd) == [fd EXCEPT !.nullable = TRUE]
\* .default(v) left out of the chain
NoDefault(fd, x) == fd
Default(fd, x) == [fd EXCEPT !.hasDefault = TRUE, !.default = x]
Transform(fd, fn) ==
  [fd EXCEPT !.effects = Append(@, [kind |-> "transform", fn |-> fn, message |-> ""])]
Refine(fd, fn, message) ==
  [fd EXCEPT !.effects = Append(@, [kind |-> "refine", fn |-> fn, message |-> message])]

\* Math.floor(Date.now() / 1000)
NowSeconds(clk) == clk \div 1000

\* the functions given to .transform()
TransformValue(fn, x) ==
  CASE fn = "parseInt10" -> ParseInt(x.v)

\* the predicates given to .refine(), the window of auth_date taken without its two
\* ends (> and < in the place of >= and <=)
RefinementHoldsOpenWindow(fn, x, clk) ==
  CASE fn = "pagePositive" -> x # NaN /\ NumLT(Num(0), x)
    [] fn = "limitRange" -> x # NaN /\ NumLT(Num(0), x) /\ NumLE(x, Num(100))
    [] fn = "authWindow" ->
         LET now == NowSeconds(clk)
         IN NumLT(Num(now - 300), x) /\ NumLT(x, Num(now + 60))
    [] fn = "notInFuture" -> DateLE(DateOf(x.v), InstantOfClock(clk))
    [] fn = "ageAtMost120" -> AgeAtMost(DateOf(x.v), InstantOfClock(clk), 120)

\* the predicates given to .refine(), the limit compared with < 100 in the place of
\* <= 100
RefinementHoldsLimitBelow100(fn, x, clk) ==
  CASE fn = "pagePositive" -> x # NaN /\ NumLT(Num(0), x)
    [] fn = "limitRange" -> x # NaN /\ NumLT(Num(0), x) /\ NumLT(x, Num(100))
    [] fn = "authWindow" ->
         LET now == NowSeconds(clk)
         IN NumLE(Num(now - 300), x) /\ NumLE(x, Num(now + 60))
    [] fn = "notInFuture" -> DateLE(DateOf(x.v), InstantOfClock(clk))
    [] fn = "ageAtMost120" -> AgeAtMost(DateOf(x.v), InstantOfClock(clk), 120)

\* the predicates given to .refine(); clk is Date.now() when the predicate runs
RefinementHolds(fn, x, clk) ==
  CASE fn = "pagePositive" -> x # NaN /\ NumLT(Num(0), x)
    [] fn = "limitRange" -> x # NaN /\ NumLT(Num(0), x) /\ NumLE(x, Num(100))
    [] fn = "authWindow" ->
         LET now == NowSeconds(clk)
             fiveMinutesAgo == now - 300
         IN NumLE(Num(fiveMinutesAgo), x) /\ NumLE(x, Num(now + 60))
    [] fn = "notInFuture" -> DateLE(DateOf(x.v), InstantOfClock(clk))
    [] fn = "ageAtMost120" -> AgeAtMost(DateOf(x.v), InstantOfClock(clk), 120)

\* what a field's parse leaves: the issues added while the object's shape is walked
\* (issues), and those added later by effects, each with the depth of its effect
\* in the chain (deferred)
FieldResult(status, value, issues, deferred) ==
  [status |-> status, value |-> value, issues |-> issues, deferred |-> deferred]

\* ZodEffects._parse in async mode.  The inner schema is parsed at once, the effect
\* runs in a later microtask (.then): a transform is skipped unless the inner result
\* is valid, a refinement runs unless the inner result is aborted
RECURSIVE ApplyEffects(_, _, _, _, _)
ApplyEffects(effects, path, r, level, clk) ==
  IF effects = <<>> THEN r
  ELSE
    LET e == Head(effects)
        after ==
          CASE e.kind = "transform" ->
                 IF r.status = "valid"
                 THEN FieldResult("valid", TransformValue(e.fn, r.value), r.issues, r.deferred)
                 ELSE r
            [] e.kind = "refine" ->
                 IF r.status = "aborted" \/ RefinementHolds(e.fn, r.value, clk) THEN r
                 ELSE FieldResult("dirty", r.value, r.issues,
                        Append(r.deferred,
                          [level |-> level,
                           issue |-> Issue("custom", path, e.message, Undefined)]))
    IN ApplyEffects(Tail(effects), path, after, level + 1, clk)

\* one field of the shape: ZodDefault replaces undefined by the default, ZodOptional
\* passes undefined, ZodNullable passes null, and the rest reaches the base type and
\* then the effects
ParseField(fd, path, x, clk) ==
  LET data == IF x = Undefined /\ fd.hasDefault THEN fd.default ELSE x
  IN IF data = Undefined /\ fd.optional THEN FieldResult("valid", Undefined, <<>>, <<>>)
     ELSE IF data = Null /\ fd.nullable THEN FieldResult("valid", Null, <<>>, <<>>)
     ELSE LET b == ParseBase(fd, path, data)
          IN ApplyEffects(fd.effects, path,
               FieldResult(b.status, b.value, b.issues, <<>>), 1, clk)

RECURSIVE Flatten(_)
Flatten(ss) == IF ss = <<>> THEN <<>> ELSE Head(ss) \o Flatten(Tail(ss))

RECURSIVE AtLevel(_, _)
AtLevel(deferred, level) ==
  IF deferred = <<>> THEN <<>>
  ELSE (IF Head(deferred).level = level THEN <<Head(deferred).issue>> ELSE <<>>)
       \o AtLevel(Tail(deferred), level)

RECURSIVE MaxEffects(_)
MaxEffects(shape) ==
  IF shape = <<>> THEN 0
  ELSE LET n == Len(Head(shape).effects)
           m == MaxEffects(Tail(shape))
       IN IF n > m THEN n ELSE m

\* ctx.common.issues after an async parse of the object: the shape is walked in
\* declaration order and every field's own checks add their issues then; the
\* effects' callbacks run afterwards, depth by depth, in declaration order
IssuesInOrder(shape, results) ==
  LET all == Flatten([i \in 1..Len(shape) |-> results[i].deferred])
  IN Flatten([i \in 1..Len(shape) |-> results[i].issues])
     \o Flatten([l \in 1..MaxEffects(shape) |-> AtLevel(all, l)])

\* the merge with every key of the shape set, an enum field that is absent to the
\* first of its values
MergeObjectFillingEnums(shape, obj, results) ==
  LET names == {shape[i].name : i \in {j \in 1..Len(shape) :
                   results[j].value # Undefined \/ HasKey(obj, shape[j].name)
                     \/ shape[j].type = "enum"}}
      idx(n) == CHOOSE i \in 1..Len(shape) : shape[i].name = n
  IN Obj([n \in names |->
            IF results[idx(n)].value = Undefined /\ shape[idx(n)].type = "enum"
            THEN Str(CHOOSE v \in shape[idx(n)].enumValues : TRUE)
            ELSE results[idx(n)].value])

\* ParseStatus.mergeObjectSync: a key is set when its value is not undefined or the
\* key was in the input (unknown keys are stripped: only shape keys are walked)
MergeObject(shape, obj, results) ==
  LET keep == {i \in 1..Len(shape) :
                 results[i].value # Undefined \/ HasKey(obj, shape[i].name)}
      names == {shape[i].name : i \in keep}
      idx(n) == CHOOSE i \in keep : shape[i].name = n
  IN Obj([n \in names |-> results[idx(n)].value])

Accept(value) == [kind |-> "ok", value |-> value]
Reject(issues) == [kind |-> "zod", issues |-> issues]
Fault(text) == [kind |-> "fault", text |-> text]

\* ZodObject.parseAsync(x): resolves with the normalized object, or rejects with a
\* ZodError holding the issues
ParseObjectAsync(shape, x, clk) ==
  IF ParsedType(x) # "object"
  THEN Reject(<<Issue("invalid_type", <<>>, DefaultTypeMessage("object", x),
                      TypeName(ParsedType(x)))>>)
  ELSE LET results == [i \in 1..Len(shape) |->
                         ParseField(shape[i], <<shape[i].name>>, Get(x, shape[i].name), clk)]
           issues == IssuesInOrder(shape, results)
       IN IF \A i \in 1..Len(shape) : results[i].status = "valid"
          THEN Accept(MergeObject(shape, x, results))
          ELSE Reject(issues)

-----------------------------------------------------------------------------
(* The schemas of user.schema.ts *)

userRoleValues == {<<"a", "t", "h", "l", "e", "t", "e">>, <<"c", "o", "a", "c", "h">>,
                   <<"a", "d", "m", "i", "n">>}
userLanguageValues == {<<"u", "k">>, <<"e", "n">>, <<"r", "u">>}
orderValues == {<<"a", "s", "c">>, <<"d", "e", "s", "c">>}

urlChecks ==
  <<Check("url", 0, "Invalid URL format"),
    Check("max", 2048, "URL must be at most 2048 characters")>>

createUserSchema ==
  << TypeErrors(Field("id", "number",
        <<Check("int", 0, "User ID must be an integer"),
          Check("gt", 0, "User ID must be positive")>>),
        "User ID is required", "User ID must be a number"),
     TypeErrors(Field("first_name", "string",
        <<Check("min", 1, "First name must be at least 1 character"),
          Check("max", 100, "First name must be at most 100 characters"),
          Check("trim", 0, "")>>),
        "First name is required", "First name must be a string"),
     Nullable(Optional(Field("username", "string",
        <<Check("min", 3, "Username must be at least 3 characters"),
          Check("max", 50, "Username must be at most 50 characters"),
          Check("word", 0, "Username can only contain letters, numbers, and underscores"),
          Check("trim", 0, "")>>))),
     Nullable(Optional(Field("last_name", "string",
        <<Check("max", 100, "Last name must be at most 100 characters"),
          Check("trim", 0, "")>>))),
     Nullable(Optional(Field("photo_url", "string", urlChecks))),
     Optional(EnumField("role", userRoleValues, "Role must be athlete, coach, or admin")),
     Optional(EnumField("language", userLanguageValues, "Language must be uk, en, or ru")) >>

loginSchema ==
  << TypeErrors(Field("id", "number",
        <<Check("int", 0, "Telegram ID must be an integer"),
          Check("gt", 0, "Telegram ID must be positive")>>),
        "Telegram ID is required", "Telegram ID must be a number"),
     TypeErrors(Field("first_name", "string",
        <<Check("min", 1, "First name must be at least 1 character"),
          Check("max", 100, "First name must be at most 100 characters"),
          Check("trim", 0, "")>>),
        "First name is required", "First name must be a string"),
     Optional(Field("username", "string",
        <<Check("min", 3, "Username must be at least 3 characters"),
          Check("max", 50, "Username must be at most 50 characters"),
          Check("trim", 0, "")>>)),
     Optional(Field("last_name", "string",
        <<Check("max", 100, "Last name must be at most 100 characters"),
          Check("trim", 0, "")>>)),
     Optional(Field("photo_url", "string", urlChecks)),
     Refine(TypeErrors(Field("auth_date", "number",
        <<Check("int", 0, "Authentication date must be an integer"),
          Check("gt", 0, "Authentication date must be positive")>>),
        "Authentication date is required", "Authentication date must be a number"),
        "authWindow", "Authentication date is invalid or expired"),
     TypeErrors(Field("hash", "string",
        <<Check("min", 64, "Invalid hash format"),
          Check("max", 64, "Invalid hash format"),
          Check("sha256hex", 0, "Hash must be a valid SHA-256 hex string")>>),
        "Authentication hash is required", "Hash must be a string") >>

paginationQuerySchema ==
  << Refine(Transform(Default(Optional(Field("page", "string", <<>>)), Str(<<"1">>)),
        "parseInt10"), "pagePositive", "Page must be a positive number"),
     Refine(Transform(Default(Optional(Field("limit", "string", <<>>)), Str(<<"1", "0">>)),
        "parseInt10"), "limitRange", "Limit must be between 1 and 100"),
     Optional(Field("sortBy", "string",
        <<Check("max", 50, "String must contain at most 50 character(s)")>>)),
     Default(Optional(EnumField("order", orderValues,
        "Invalid enum value. Expected 'asc' | 'desc'")), Str(<<"a", "s", "c">>)) >>

\* a string with a longest length and .trim()
TrimmedText(name, min, minMessage, max, maxMessage) ==
  Field(name, "string",
    (IF min > 0 THEN <<Check("min", min, minMessage)>> ELSE <<>>)
      \o <<Check("max", max, maxMessage), Check("trim", 0, "")>>)

emailChecks ==
  <<Check("email", 0, "Invalid email format"),
    Check("max", 255, "Email must be at most 255 characters"),
    Check("toLowerCase", 0, ""),
    Check("trim", 0, "")>>

phoneNumberChecks ==
  <<Check("min", 10, "Phone number must be at least 10 characters"),
    Check("max", 20, "Phone number must be at most 20 characters"),
    Check("phone", 0, "Invalid phone number format"),
    Check("trim", 0, "")>>

timezoneChecks ==
  <<Check("min", 1, "Timezone is required"),
    Check("max", 50, "Timezone must be at most 50 characters"),
    Check("timezone", 0, "Timezone must be in IANA format (e.g., Europe/Kiev)")>>

userLevelValues == {<<"s", "c", "a", "l", "e", "d">>, <<"r", "x">>,
                    <<"i", "n", "t", "e", "r", "m", "e", "d", "i", "a", "t", "e">>}
userGenderValues == {<<"m", "a", "l", "e">>, <<"f", "e", "m", "a", "l", "e">>,
                     <<"o", "t", "h", "e", "r">>}
payoutMethodValues == {<<"b", "a", "n", "k", "_", "t", "r", "a", "n", "s", "f", "e", "r">>,
                       <<"p", "a", "y", "p", "a", "l">>, <<"s", "t", "r", "i", "p", "e">>}

\* dateOfBirthSchema as the field `name`
dateOfBirthField(name) ==
  Refine(Refine(Field(name, "string",
      <<Check("datetime", 0, "Date of birth must be a valid ISO 8601 date")>>),
    "notInFuture", "Date of birth cannot be in the future"),
    "ageAtMost120", "Date of birth seems invalid (age > 120 years)")

updateUserSchema ==
  << Field("id", "number",
       <<Check("int", 0, "Expected integer, received float"),
         Check("gt", 0, "User ID must be positive")>>),
     Nullable(Optional(Field("username", "string",
        <<Check("min", 3, "Username must be at least 3 characters"),
          Check("max", 50, "Username must be at most 50 characters"),
          Check("word", 0, "Username can only contain letters, numbers, and underscores"),
          Check("trim", 0, "")>>))),
     Optional(TrimmedText("first_name", 1, "First name must be at least 1 character",
                          100, "First name must be at most 100 characters")),
     Nullable(Optional(TrimmedText("last_name", 0, "",
                          100, "Last name must be at most 100 characters"))),
     Nullable(Optional(Field("photo_url", "string", urlChecks))),
     Nullable(Optional(Field("email", "string", emailChecks))),
     Nullable(Optional(Field("phone_number", "string", phoneNumberChecks))),
     Optional(EnumField("level", userLevelValues, "Level must be scaled, intermediate, or rx")),
     Nullable(Optional(Field("height_cm", "number",
        <<Check("int", 0, "Height must be an integer"),
          Check("gte", 50, "Height must be at least 50 cm"),
          Check("lte", 250, "Height must be at most 250 cm")>>))),
     Nullable(Optional(Field("weight_kg", "number",
        <<Check("gte", 20, "Weight must be at least 20 kg"),
          Check("lte", 300, "Weight must be at most 300 kg")>>))),
     Nullable(Optional(dateOfBirthField("date_of_birth"))),
     Nullable(Optional(EnumField("gender", userGenderValues,
        "Gender must be male, female, or other"))),
     Nullable(Optional(Field("experience_years", "number",
        <<Check("int", 0, "Experience years must be an integer"),
          Check("gte", 0, "Experience years cannot be negative"),
          Check("lte", 80, "Experience years must be at most 80")>>))),
     Nullable(Optional(TrimmedText("goals", 0, "", 1000, "Goals must be at most 1000 characters"))),
     Nullable(Optional(TrimmedText("injuries", 0, "",
                          1000, "Injuries must be at most 1000 characters"))),
     Nullable(Optional(TrimmedText("notes", 0, "", 2000, "Notes must be at most 2000 characters"))),
     Optional(EnumField("language", userLanguageValues, "Language must be uk, en, or ru")),
     Optional(Field("timezone", "string", timezoneChecks)),
     Optional(Field("notifications_enabled", "boolean", <<>>)),
     Nullable(Optional(TrimmedText("bank_account_number",
        8, "Bank account number must be at least 8 characters",
        34, "Bank account number must be at most 34 characters"))),
     Nullable(Optional(TrimmedText("bank_account_holder",
        2, "Bank account holder name must be at least 2 characters",
        100, "Bank account holder name must be at most 100 characters"))),
     Nullable(Optional(TrimmedText("bank_name",
        2, "Bank name must be at least 2 characters",
        100, "Bank name must be at most 100 characters"))),
     Nullable(Optional(Field("paypal_email", "string", emailChecks))),
     Nullable(Optional(EnumField("payout_method", payoutMethodValues,
        "Payout method must be bank_transfer, paypal, or stripe"))) >>

createUserRecordSchema ==
  << TypeErrors(TrimmedText("exercise_name", 1, "Exercise name must be at least 1 character",
                            100, "Exercise name must be at most 100 characters"),
        "Exercise name is required", "Exercise name must be a string"),
     TypeErrors(TrimmedText("record_type", 1, "Record type must be at least 1 character",
                            50, "Record type must be at most 50 characters"),
        "Record type is required", "Record type must be a string"),
     TypeErrors(Field("value", "number",
        <<Check("gt", 0, "Record value must be positive"),
          Check("lte", 100000, "Record value seems unreasonably high")>>),
        "Record value is required", "Record value must be a number"),
     Optional(TrimmedText("unit", 0, "", 20, "Unit must be at most 20 characters")),
     Optional(Refine(Field("achieved_at", "string",
        <<Check("datetime", 0, "Achieved date must be a valid ISO 8601 date")>>),
        "notInFuture", "Achieved date cannot be in the future")) >>

\* userSchemas: the request schemas by name
RegistryNames == {"createUser", "updateUser", "login", "createUserRecord", "paginationQuery"}

Shape(name) ==
  CASE name = "createUser" -> createUserSchema
    [] name = "updateUser" -> updateUserSchema
    [] name = "login" -> loginSchema
    [] name = "createUserRecord" -> createUserRecordSchema
    [] name = "paginationQuery" -> paginationQuerySchema

-----------------------------------------------------------------------------
(* Sample inputs.  Undefined as a sample stands for a missing key. *)

\* the object with the keys of f whose sample is not Undefined
MakeObj(f) == Obj([k \in {j \in DOMAIN f : f[j] # Undefined} |-> f[k]])

Pads == {Rep(" ", k) : k \in 0..MaxPad}

\* a core string with up to MaxPad blanks on each side
Padded(core) == {Str(a \o core \o b) : a \in Pads, b \in Pads}

nameSamples ==
  Padded(<<>>) \cup Padded(<<"a">>)
    \cup {Undefined, Num(7), Str(Rep("a", 100)), Str(Rep("a", 101))}

\* the Unix time (seconds) when the request arrives
Now0 == NowSeconds(ClockStart)

createUserInputs ==
  { MakeObj(f) : f \in
      [id : {Num(1), Num(0), Undefined},
       first_name : nameSamples,
       username : {Undefined, Null, Str(<<"a", "b", "1">>), Str(<<"a", "-">>)},
       last_name : {Undefined, Str(<<" ", "z", " ">>)},
       photo_url : {Undefined, Str(<<"h", "t", "t", "p", ":", "/", "/", "a">>), Str(<<"x">>)},
       role : {Undefined, Str(<<"c", "o", "a", "c", "h">>), Str(<<"x">>)},
       language : {Undefined, Str(<<"e", "n">>)}] }

loginInputs ==
  { MakeObj(f) : f \in
      [id : {Num(5), Undefined},
       first_name : Padded(<<>>) \cup {Str(<<"a">>)},
       username : {Undefined, Str(<<"a", "b">>)},
       auth_date : {Undefined, Num(0), Dec(Now0, 500), Num(Now0 - 301), Num(Now0 - 300),
                    Num(Now0), Num(Now0 + 60), Num(Now0 + 61)},
       hash : {Undefined, Str(Rep("a", 64)), Str(Rep("a", 63)), Str(Rep("a", 65)),
               Str(Rep("A", 64)), Str(Rep("0", 63) \o <<"g">>)}] }

paginationQueryInputs ==
  { MakeObj(f) : f \in
      [page : {Undefined, Num(2), Str(<<>>), Str(<<"1">>), Str(<<"2">>), Str(<<"0">>),
               Str(<<"a", "b", "c">>), Str(<<"1", "2", "a", "b", "c">>),
               Str(<<"1", ".", "5">>), Str(<<"-", "3">>)} \cup Padded(<<"7">>),
       limit : {Undefined, Num(10), Str(<<"1", "0">>), Str(<<"1", "0", "0">>),
                Str(<<"1", "0", "1">>), Str(<<"0">>), Str(<<"a", "b", "c">>),
                Str(<<"1">>), Str(<<"1", ".", "5">>), Str(<<"-", "3">>),
                Str(<<" ", "7">>)},
       sortBy : {Undefined, Str(<<"x">>), Str(Rep("x", 51))},
       order : {Undefined, Str(<<"a", "s", "c">>), Str(<<"d", "e", "s", "c">>),
                Str(<<"x">>)}] }

\* ISO 8601 strings around the time the request arrives (ClockStart is
\* 1970-01-01T00:16:40.000Z), and a date more than 120 years before it
StartIso ==
  Str(<<"1", "9", "7", "0", "-", "0", "1", "-", "0", "1", "T",
        "0", "0", ":", "1", "6", ":", "4", "0", "Z">>)
SoonIso ==
  Str(<<"1", "9", "7", "0", "-", "0", "1", "-", "0", "1", "T",
        "0", "0", ":", "1", "6", ":", "4", "1", "Z">>)
LongAgoIso ==
  Str(<<"1", "8", "4", "9", "-", "1", "2", "-", "3", "0", "T",
        "2", "3", ":", "5", "9", ":", "5", "9", ".", "5", "Z">>)

updateUserInputs ==
  { MakeObj(f) : f \in
      [id : {Num(1), Undefined},
       email : {Undefined, Str(<<"a", "b">>), Str(<<"A", "@", "b", ".", "c", "d">>)},
       height_cm : {Undefined, Num(10), Num(49), Num(50), Num(250), Num(251), Dec(170, 500)},
       weight_kg : {Undefined, Num(1000), Dec(19, 999), Num(20), Num(300), Dec(300, 1)},
       date_of_birth : {Undefined, StartIso, SoonIso, LongAgoIso, Str(<<"x">>)},
       experience_years : {Undefined, Num(0 - 1)}] }

createUserRecordInputs ==
  { MakeObj(f) : f \in
      [exercise_name : {Undefined, Str(<<"a">>), Str(<<" ">>)},
       record_type : {Str(<<"x">>)},
       value : {Undefined, Num(1), Num(0), Num(100000), Dec(100000, 1)},
       unit : {Undefined, Str(<<" ", "g", " ">>)},
       achieved_at : {Undefined, StartIso, SoonIso, Str(<<"x">>)}] }

\* a key no schema declares, and payloads that are no object
WithUnknownKey(o) == SetKey(o, "is_admin", Bool(TRUE))

ValidCreateUser == MakeObj([id |-> Num(1), first_name |-> Str(<<"a">>)])

Inputs(name) ==
  CASE name = "createUser" ->
         createUserInputs \cup {WithUnknownKey(ValidCreateUser), Undefined, Str(<<"a">>)}
    [] name = "updateUser" -> updateUserInputs
    [] name = "login" -> loginInputs
    [] name = "createUserRecord" -> createUserRecordInputs
    [] name = "paginationQuery" ->
         paginationQueryInputs \cup {WithUnknownKey(EmptyObj)}

-----------------------------------------------------------------------------
(* Schema registry: a schema is evaluated on an input, and again *)

\* the text of the error thrown inside a schema that is no registry schema (a
\* ZodSchema whose refinement throws)
FaultText == "ECONNREFUSED 10.0.0.5:5432"

\* schema.parseAsync(x), the promise's outcome; clk is Date.now() during the parse.
\* A registry schema resolves or rejects with a ZodError; the middleware takes any
\* ZodSchema, and one whose evaluation throws rejects with that error
ParseAsync(name, x, clk) ==
  IF name \in RegistryNames THEN ParseObjectAsync(Shape(name), x, clk)
  ELSE Fault(FaultText)

NoOutcome == [at |-> 0, out |-> [kind |-> "none"]]
Evaluation(name, x, clk) == [at |-> clk, out |-> ParseAsync(name, x, clk)]

TicksTaken == (clock - ClockStart) \div TickMs

GateIdle ==
  /\ mode = "none" /\ schemas = <<>> /\ abortEarly = FALSE
  /\ raw = <<>> /\ req = <<>> /\ pc = "idle" /\ evals = <<>> /\ allState = "none"
  /\ order = <<>> /\ nextCalls = 0 /\ nextThrew = FALSE /\ responses = <<>>

RegistryIdle ==
  /\ phase = "idle" /\ schemaName = "none" /\ input = Undefined
  /\ outcome1 = NoOutcome /\ outcome2 = NoOutcome

ServerIdle ==
  /\ stage = "idle" /\ httpRequest = Undefined /\ unhandled = Undefined
  /\ logs = 0 /\ sent = <<>>

RegistryInit ==
  /\ nodeEnv = "unset"
  /\ clock = ClockStart
  /\ GateIdle
  /\ ServerIdle
  /\ phase = "input"
  /\ schemaName \in RegistryNames
  /\ input \in Inputs(schemaName)
  /\ outcome1 = NoOutcome
  /\ outcome2 = NoOutcome

\* the clock advances
Tick ==
  /\ TicksTaken < MaxTicks
  /\ clock' = clock + TickMs
  /\ UNCHANGED <<nodeEnv, gateVars, registryVars, serverVars>>

\* schema.parseAsync(input)
Evaluate ==
  /\ phase = "input"
  /\ outcome1' = Evaluation(schemaName, input, clock)
  /\ phase' = "evaluated"
  /\ UNCHANGED <<nodeEnv, clock, gateVars, serverVars, schemaName, input, outcome2>>

\* schema.parseAsync(normalized), normalized being the output of the first evaluation
EvaluateOutput ==
  /\ phase = "evaluated"
  /\ outcome1.out.kind = "ok"
  /\ outcome2' = Evaluation(schemaName, outcome1.out.value, clock)
  /\ phase' = "reevaluated"
  /\ UNCHANGED <<nodeEnv, clock, gateVars, serverVars, schemaName, input, outcome1>>

\* schema.parseAsync(input), a second time
EvaluateAgain ==
  /\ phase = "evaluated"
  /\ outcome2' = Evaluation(schemaName, input, clock)
  /\ phase' = "repeated"
  /\ UNCHANGED <<nodeEnv, clock, gateVars, serverVars, schemaName, input, outcome1>>

RegistryNext == Tick \/ Evaluate \/ EvaluateOutput \/ EvaluateAgain

RegistrySpec == RegistryInit /\ [][RegistryNext]_vars

-----------------------------------------------------------------------------
(* Validation middleware: responses *)

\* ValidationTarget, in the order validateMultiple starts the evaluations
Targets == <<"body", "params", "query">>
TargetSet == {Targets[i] : i \in 1..Len(Targets)}

\* err.path.join('.')
RECURSIVE Join(_)
Join(path) ==
  IF path = <<>> THEN ""
  ELSE IF Len(path) = 1 THEN Head(path)
  ELSE Head(path) \o "." \o Join(Tail(path))

\* one entry of validationErrors; a value of Undefined is left out of the JSON
ValidationError(err) ==
  [field |-> Join(err.path),
   message |-> err.message,
   value |-> IF err.code = "invalid_type" THEN Undefined ELSE err.received]

\* error.errors.map(...)
FormatErrors(errors) == [i \in 1..Len(errors) |-> ValidationError(errors[i])]

\* abortEarly ? [validationErrors[0]] : validationErrors
Details(validationErrors, abort) ==
  IF abort
  THEN (IF validationErrors = <<>> THEN <<Undefined>> ELSE <<validationErrors[1]>>)
  ELSE validationErrors

\* res.status(400).json({...})
ValidationErrorResponse(details) ==
  [status |-> 400,
   body |-> [success |-> FALSE,
             error |-> [message |-> "Validation failed",
                        code |-> "VALIDATION_ERROR",
                        details |-> details]]]

\* res.status(500).json({...}): the caught error is not used
InternalErrorResponse(error) ==
  [status |-> 500,
   body |-> [success |-> FALSE,
             error |-> [message |-> "Internal validation error",
                        code |-> "INTERNAL_ERROR"]]]

IsZodError(error) == error.kind = "zod"

\* the catch block of validate with the instanceof test never true (two copies of
\* zod loaded): every error is answered as an internal one
ValidateCatchNoZodError(error, abort) == InternalErrorResponse(error)

\* the catch block of validate
ValidateCatch(error, abort) ==
  IF IsZodError(error)
  THEN ValidationErrorResponse(Details(FormatErrors(error.issues), abort))
  ELSE InternalErrorResponse(error)

\* the catch block of validateMultiple
ValidateMultipleCatch(error) ==
  IF IsZodError(error)
  THEN ValidationErrorResponse(FormatErrors(error.issues))
  ELSE InternalErrorResponse(error)

-----------------------------------------------------------------------------
(* Validation middleware: promises *)

None == [kind |-> "none"]
NoEval == [state |-> "none", out |-> None]
\* the promise of schema.parseAsync(x): pending, and bound to settle with the
\* outcome of the parse that the call started
Pending(out) == [state |-> "pending", out |-> out]
Settled(out) ==
  [state |-> IF out.kind = "ok" THEN "fulfilled" ELSE "rejected", out |-> out]

\* the targets a schema was given for
Provided(sch) == {t \in TargetSet : sch[t] # "none"}

\* Promise.race in the place of Promise.all: settled by the first promise to settle
AllAfterSettleRace(all, evs, t) ==
  IF all.state # "pending" THEN all
  ELSE IF evs[t].state = "rejected" THEN [state |-> "rejected", reason |-> evs[t].out]
  ELSE [state |-> "fulfilled", reason |-> None]

\* Promise.all over one promise per target, the promise of a target without schema
\* never settling: fulfilled only when every target was evaluated
AllAfterSettleEveryTarget(all, evs, t) ==
  IF all.state # "pending" THEN all
  ELSE IF evs[t].state = "rejected" THEN [state |-> "rejected", reason |-> evs[t].out]
  ELSE IF \A u \in TargetSet : evs[u].state = "fulfilled"
  THEN [state |-> "fulfilled", reason |-> None]
  ELSE all

\* Promise.all: rejected with the reason of the first promise that rejects,
\* fulfilled once every promise is fulfilled
AllAfterSettle(all, evs, t) ==
  IF all.state # "pending" THEN all
  ELSE IF evs[t].state = "rejected" THEN [state |-> "rejected", reason |-> evs[t].out]
  ELSE IF \A u \in TargetSet : evs[u].state \in {"none", "fulfilled"}
  THEN [state |-> "fulfilled", reason |-> None]
  ELSE all

\* the results written by position in body, params, query instead of by targets[index]:
\* the i-th result goes to the i-th slot, whatever target it was evaluated for
CommitByPosition(r, evs) ==
  LET done == SelectSeq(Targets, LAMBDA t : evs[t].state = "fulfilled")
  IN [t \in TargetSet |->
        LET i == CHOOSE j \in 1..Len(Targets) : Targets[j] = t
        IN IF i <= Len(done) THEN evs[done[i]].out.value ELSE r[t]]

\* results.forEach((result, index) => req[targets[index]] = result)
Commit(r, evs) ==
  [t \in TargetSet |-> IF evs[t].state = "fulfilled" THEN evs[t].out.value ELSE r[t]]

\* the writes done in a finally block: what was accepted is written even when the
\* awaited promise is rejected
RequestAfterAwaitPartial(r, all, evs) == Commit(r, evs)

\* safeParseAsync in the place of parseAsync, its result's data written without a
\* look at its success: the slot of a rejected evaluation becomes undefined
RequestAfterAwaitSafeParseData(r, all, evs) ==
  [t \in TargetSet |->
     IF evs[t].state = "fulfilled" THEN evs[t].out.value
     ELSE IF evs[t].state = "rejected" THEN Undefined
     ELSE r[t]]

\* the request after "await Promise.all(...)" and the statements behind it: the
\* await throws when the promise is rejected, and the writes are skipped
RequestAfterAwait(r, all, evs) ==
  IF all.state = "fulfilled" THEN Commit(r, evs) ELSE r

\* what next() may do: return, or throw synchronously (any value)
NextOutcomes ==
  { [kind |-> "returns"],
    Fault("downstream handler failed"),
    Reject(<<Issue("custom", <<"downstream">>, "thrown by a later handler", Undefined)>>) }

-----------------------------------------------------------------------------
(* Validation middleware: one request *)

ValidLogin(authDate) ==
  MakeObj([id |-> Num(5), first_name |-> Str(<<"a">>), auth_date |-> Num(authDate),
           hash |-> Str(Rep("a", 64))])

\* the payloads a request brings for a slot validated by the schema `name`
RequestInputs(name) ==
  CASE name = "none" -> {MakeObj([id |-> Str(<<"7">>)])}
    [] name = "throwing" -> {EmptyObj}
    [] name = "createUser" ->
         { WithUnknownKey(MakeObj([id |-> Num(1), first_name |-> Str(<<" ", "a">>)])),
           MakeObj([id |-> Num(1), first_name |-> Str(<<" ">>)]),
           MakeObj([id |-> Num(0), first_name |-> Str(<<"a">>), role |-> Str(<<"x">>)]) }
    [] name = "updateUser" ->
         { MakeObj([id |-> Num(1), email |-> Str(<<"a", "b">>), height_cm |-> Num(10),
                    weight_kg |-> Num(1000)]),
           MakeObj([id |-> Num(1), date_of_birth |-> SoonIso,
                    experience_years |-> Num(0 - 1)]) }
    [] name = "createUserRecord" ->
         { MakeObj([exercise_name |-> Str(<<"a">>), record_type |-> Str(<<"x">>),
                    value |-> Num(1), unit |-> Str(<<" ", "g", " ">>)]) }
    [] name = "login" ->
         { ValidLogin(Now0),
           ValidLogin(Now0 - 300),
           MakeObj([id |-> Num(5), first_name |-> Str(<<"a">>),
                    auth_date |-> Num(Now0 - 301), hash |-> Str(Rep("a", 63))]) }
    [] name = "paginationQuery" ->
         { EmptyObj,
           MakeObj([page |-> Str(<<"0">>), order |-> Str(<<"x">>)]),
           MakeObj([page |-> Str(<<"2">>), limit |-> Str(<<"a", "b", "c">>)]) }

\* the schemas a route may give the middleware
SchemaChoices == RegistryNames \cup {"throwing"}

NodeEnvs == {"production", "development", "unset"}

Init ==
  /\ nodeEnv \in NodeEnvs
  /\ clock \in {ClockStart, ClockStart + MaxTicks * TickMs}
  /\ RegistryIdle
  /\ ServerIdle
  /\ mode \in {"validate", "validateMultiple"}
  /\ schemas \in [TargetSet -> SchemaChoices \cup {"none"}]
  /\ mode = "validate" => Cardinality(Provided(schemas)) = 1
  /\ abortEarly \in BOOLEAN
  /\ mode = "validateMultiple" => abortEarly = FALSE
  /\ \E b \in RequestInputs(schemas["body"]), p \in RequestInputs(schemas["params"]),
        q \in RequestInputs(schemas["query"]) :
       raw = [body |-> b, params |-> p, query |-> q]
  /\ req = raw
  /\ pc = "start"
  /\ evals = [t \in TargetSet |-> NoEval]
  /\ allState = [state |-> "none", reason |-> None]
  /\ order = <<>>
  /\ nextCalls = 0
  /\ nextThrew = FALSE
  /\ responses = <<>>

\* validate's middleware up to its await: schema.parseAsync(req[target])
ValidateCall ==
  /\ mode = "validate"
  /\ pc = "start"
  /\ evals' = [t \in TargetSet |->
                IF schemas[t] # "none" THEN Pending(ParseAsync(schemas[t], req[t], clock))
                ELSE NoEval]
  /\ allState' = [state |-> "pending", reason |-> None]
  /\ pc' = "awaiting"
  /\ UNCHANGED <<nodeEnv, clock, mode, schemas, abortEarly, raw, req, order, nextCalls,
                 nextThrew, responses, registryVars, serverVars>>

\* validateMultiple's middleware up to its await: one parseAsync per schema given,
\* then Promise.all (fulfilled at once when no schema was given)
ValidateMultipleCall ==
  /\ mode = "validateMultiple"
  /\ pc = "start"
  /\ evals' = [t \in TargetSet |->
                IF schemas[t] # "none" THEN Pending(ParseAsync(schemas[t], req[t], clock))
                ELSE NoEval]
  /\ allState' = [state |-> IF Provided(schemas) = {} THEN "fulfilled" ELSE "pending",
                  reason |-> None]
  /\ pc' = "awaiting"
  /\ UNCHANGED <<nodeEnv, clock, mode, schemas, abortEarly, raw, req, order, nextCalls,
                 nextThrew, responses, registryVars, serverVars>>

\* the evaluation of target t settles; it writes nothing to the request
Settle(t) ==
  /\ evals[t].state = "pending"
  /\ LET evs == [evals EXCEPT ![t] = Settled(evals[t].out)]
     IN /\ evals' = evs
        /\ allState' = AllAfterSettle(allState, evs, t)
  /\ order' = Append(order, t)
  /\ UNCHANGED <<nodeEnv, clock, mode, schemas, abortEarly, raw, req, pc, nextCalls,
                 nextThrew, responses, registryVars, serverVars>>

\* validate's middleware after its await: the write and next(), or the catch block;
\* an exception thrown by next() is caught by the same catch block
ValidateResume ==
  /\ mode = "validate"
  /\ pc = "awaiting"
  /\ allState.state \in {"fulfilled", "rejected"}
  /\ req' = RequestAfterAwait(req, allState, evals)
  /\ IF allState.state = "fulfilled"
     THEN /\ nextCalls' = nextCalls + 1
          /\ \E nx \in NextOutcomes :
               /\ nextThrew' = (nx.kind # "returns")
               /\ responses' = IF nx.kind = "returns" THEN responses
                               ELSE Append(responses, ValidateCatch(nx, abortEarly))
     ELSE /\ responses' = Append(responses, ValidateCatch(allState.reason, abortEarly))
          /\ UNCHANGED <<nextCalls, nextThrew>>
  /\ pc' = "done"
  /\ UNCHANGED <<nodeEnv, clock, mode, schemas, abortEarly, raw, evals, allState, order,
                 registryVars, serverVars>>

\* validateMultiple's middleware after its await
ValidateMultipleResume ==
  /\ mode = "validateMultiple"
  /\ pc = "awaiting"
  /\ allState.state \in {"fulfilled", "rejected"}
  /\ req' = RequestAfterAwait(req, allState, evals)
  /\ IF allState.state = "fulfilled"
     THEN /\ nextCalls' = nextCalls + 1
          /\ \E nx \in NextOutcomes :
               /\ nextThrew' = (nx.kind # "returns")
               /\ responses' = IF nx.kind = "returns" THEN responses
                               ELSE Append(responses, ValidateMultipleCatch(nx))
     ELSE /\ responses' = Append(responses, ValidateMultipleCatch(allState.reason))
          /\ UNCHANGED <<nextCalls, nextThrew>>
  /\ pc' = "done"
  /\ UNCHANGED <<nodeEnv, clock, mode, schemas, abortEarly, raw, evals, allState, order,
                 registryVars, serverVars>>

Next ==
  \/ ValidateCall
  \/ ValidateMultipleCall
  \/ \E t \in TargetSet : Settle(t)
  \/ ValidateResume
  \/ ValidateMultipleResume

Spec == Init /\ [][Next]_vars

\* Every schema evaluation that was started settles, and the event loop resumes a
\* function whose awaited promise is settled
Fairness ==
  /\ \A t \in TargetSet : WF_vars(Settle(t))
  /\ WF_vars(ValidateResume)
  /\ WF_vars(ValidateMultipleResume)

\* the requests of Init, at one clock value and NODE_ENV (neither is read by the
\* middleware's steps)
FairInit == Init /\ nodeEnv = "unset" /\ clock = ClockStart

FairSpec == FairInit /\ [][Next]_vars /\ Fairness

-----------------------------------------------------------------------------
(* Properties of the middleware *)

Done == pc = "done"

\* what the evaluation of target t yields for this request, once the middleware
\* has started it
OutcomeOf(t) == evals[t].out

\* validate's target: the one slot a schema was given for
TheTarget == CHOOSE t \in TargetSet : schemas[t] # "none"

\* the provided targets whose evaluation fails, with a ZodError or another fault
FailingTargets == {t \in Provided(schemas) : OutcomeOf(t).kind # "ok"}
RejectedTargets == {t \in Provided(schemas) : OutcomeOf(t).kind = "zod"}

IsValidationError(resp) ==
  /\ resp.status = 400
  /\ DOMAIN resp.body = {"success", "error"}
  /\ resp.body.success = FALSE
  /\ DOMAIN resp.body.error = {"message", "code", "details"}
  /\ resp.body.error.message = "Validation failed"
  /\ resp.body.error.code = "VALIDATION_ERROR"

IsInternalError(resp) ==
  /\ resp.status = 500
  /\ DOMAIN resp.body = {"success", "error"}
  /\ resp.body.success = FALSE
  /\ DOMAIN resp.body.error = {"message", "code"}
  /\ resp.body.error.code = "INTERNAL_ERROR"

\* C1: validateMultiple commits all or nothing: when the evaluation of any provided
\* target fails, req.body, req.params and req.query keep their raw values in every
\* state of every interleaving, the slots whose schema accepted included.
C1_AllOrNothingCommit ==
  (mode = "validateMultiple" /\ FailingTargets # {}) => req = raw

\* a failed request, answered, one of whose slots was accepted with a normalized
\* value that differs from the raw one
C1_Witness ==
  /\ mode = "validateMultiple" /\ Done /\ responses # <<>>
  /\ \E t \in TargetSet : evals[t].state = "rejected"
  /\ \E u \in TargetSet : evals[u].state = "fulfilled" /\ evals[u].out.value # raw[u]
  /\ req = raw

\* C2: validateMultiple reports only after every provided schema was evaluated: no
\* response is sent while the evaluation of a provided target is pending.
C2_ReportsAfterAllEvaluated ==
  (mode = "validateMultiple" /\ responses # <<>>) =>
    \A t \in TargetSet : evals[t].state # "pending"

\* C3: when the schema accepts the payload of validate's target, the slot holds the
\* normalized output, next was called exactly once, and no response is sent.
C3_AcceptCommitsAndPasses ==
  (mode = "validate" /\ Done /\ OutcomeOf(TheTarget).kind = "ok") =>
    /\ req[TheTarget] = OutcomeOf(TheTarget).value
    /\ nextCalls = 1
    /\ responses = <<>>

\* C4: when the schema rejects the payload of validate's target with at least one
\* violation, exactly one response is sent, 400 with the VALIDATION_ERROR body and a
\* non-empty details list, next is never called and the slot keeps its raw value.
C4_RejectAnswers400 ==
  (mode = "validate" /\ OutcomeOf(TheTarget).kind = "zod"
     /\ OutcomeOf(TheTarget).issues # <<>>) =>
    /\ nextCalls = 0
    /\ req = raw
    /\ Len(responses) <= 1
    /\ Done => /\ Len(responses) = 1
               /\ IsValidationError(responses[1])
               /\ responses[1].body.error.details # <<>>

C4_Witness ==
  /\ mode = "validate" /\ Done
  /\ OutcomeOf(TheTarget).kind = "zod"
  /\ Len(OutcomeOf(TheTarget).issues) >= 2
  /\ Len(responses) = 1 /\ responses[1].status = 400

\* the violations of input x under the object schema `shape`, every field's own
\* violations together, the fields in the order the schema declares them
ViolationsInDeclarationOrder(shape, x, clk) ==
  IF ParsedType(x) # "object" THEN ParseObjectAsync(shape, x, clk).issues
  ELSE LET results == [i \in 1..Len(shape) |->
                         ParseField(shape[i], <<shape[i].name>>, Get(x, shape[i].name), clk)]
       IN Flatten([i \in 1..Len(shape) |->
                     results[i].issues
                       \o [k \in 1..Len(results[i].deferred) |-> results[i].deferred[k].issue]])

SameEntries(a, b) ==
  /\ Len(a) = Len(b)
  /\ {a[i] : i \in 1..Len(a)} = {b[i] : i \in 1..Len(b)}

\* C5: a 400 response of validate with abortEarly = true has exactly one details
\* entry, the first violation in the schema's field-declaration order; with
\* abortEarly = false the details hold every violation.
C5_AbortEarlyFirstDeclared ==
  (mode = "validate" /\ Done /\ schemas[TheTarget] \in RegistryNames
     /\ OutcomeOf(TheTarget).kind = "zod") =>
    LET declared == ViolationsInDeclarationOrder(Shape(schemas[TheTarget]),
                                                 raw[TheTarget], clock)
        details == responses[1].body.error.details
    IN /\ Len(responses) = 1
       /\ IsValidationError(responses[1])
       /\ IF abortEarly THEN details = <<ValidationError(declared[1])>>
          ELSE SameEntries(details, FormatErrors(declared))

\* C6: a fault raised during schema evaluation that is no ZodError is answered with
\* 500 and INTERNAL_ERROR, and the body does not hold the fault's text, for every
\* NODE_ENV: when the middleware answers after such a fault was raised, its one
\* response is that one.
C6_FaultAnswers500 ==
  [][(pc = "awaiting" /\ pc' = "done"
        /\ \E t \in TargetSet : evals[t].state = "rejected" /\ evals[t].out.kind = "fault")
       => /\ Len(responses') = 1
          /\ IsInternalError(responses'[1])
          /\ responses'[1].body.error.message # FaultText]_vars

\* C7: normalization is idempotent: a schema evaluated on its own normalized output
\* accepts it and yields that same value.
C7_NormalizationIdempotent ==
  (phase = "reevaluated" /\ outcome2.at = outcome1.at) =>
    outcome2.out = Accept(outcome1.out.value)

\* the first failing target in the order the evaluations were started
FirstFailing ==
  Targets[CHOOSE i \in 1..Len(Targets) :
            /\ Targets[i] \in FailingTargets
            /\ \A j \in 1..(i - 1) : Targets[j] \notin FailingTargets]

\* the responses of the interleaving in which the evaluations settle in the order
\* they were started, for a request with a failing target
InOrderResponses == <<ValidateMultipleCatch(OutcomeOf(FirstFailing))>>

\* the provided targets in the order they were started
ProvidedInOrder == SelectSeq(Targets, LAMBDA t : t \in Provided(schemas))

IsPrefix(a, b) == Len(a) <= Len(b) /\ a = SubSeq(b, 1, Len(a))

\* InOrderResponses is what the in-order interleaving answers
InOrderInterleaving ==
  (mode = "validateMultiple" /\ Done /\ FailingTargets # {}
     /\ IsPrefix(order, ProvidedInOrder)) =>
    responses = InOrderResponses

\* C8: the outcome of validateMultiple does not depend on the order in which the
\* evaluations settle: every interleaving passes or fails alike and, failing, sends
\* the response of the interleaving that settles in starting order.
C8_OrderIndependent ==
  (mode = "validateMultiple" /\ Done) =>
    IF FailingTargets = {} THEN nextCalls = 1
    ELSE nextCalls = 0 /\ responses = InOrderResponses

\* C9: validateMultiple({body, params}) with an accepted body and rejected params
\* sends exactly one response, 400 VALIDATION_ERROR, whose details are exactly the
\* violations of the params schema, and never calls next.
C9_ValidBodyInvalidParams ==
  (mode = "validateMultiple" /\ Provided(schemas) = {"body", "params"}
     /\ OutcomeOf("body").kind = "ok" /\ OutcomeOf("params").kind = "zod") =>
    /\ nextCalls = 0
    /\ Len(responses) <= 1
    /\ Done =>
         /\ Len(responses) = 1
         /\ IsValidationError(responses[1])
         /\ LET details == responses[1].body.error.details
                issues == OutcomeOf("params").issues
            IN /\ Len(details) = Len(issues)
               /\ \A i \in 1..Len(issues) :
                    /\ details[i].field = Join(issues[i].path)
                    /\ details[i].message = issues[i].message

\* the response was sent while the accepted body was, or was not yet, evaluated
C9_Witness ==
  /\ mode = "validateMultiple" /\ Done
  /\ Provided(schemas) = {"body", "params"}
  /\ OutcomeOf("body").kind = "ok" /\ OutcomeOf("params").kind = "zod"
  /\ evals["body"].state = "fulfilled"
  /\ Len(responses) = 1 /\ Len(responses[1].body.error.details) >= 2

\* C10: when several targets of validateMultiple are rejected, the details of the
\* 400 response hold the violations of every rejected target.
C10_AggregatesAllTargets ==
  (mode = "validateMultiple" /\ Done /\ Cardinality(RejectedTargets) >= 2
     /\ Len(responses) = 1 /\ responses[1].status = 400) =>
    \A t \in RejectedTargets :
      \A i \in 1..Len(OutcomeOf(t).issues) :
        \E j \in 1..Len(responses[1].body.error.details) :
          responses[1].body.error.details[j] = ValidationError(OutcomeOf(t).issues[i])

\* C11: every invocation of the middleware ends in an HTTP outcome: under fair
\* scheduling an invoked middleware (it has run up to its await) eventually has
\* called next or sent a response, and once it has ended after a failed evaluation
\* it has sent exactly one response, with status 400 or 500, and has not called next.
C11_EndsInHttpOutcome ==
  /\ (pc = "awaiting") ~> (Done /\ (nextCalls = 1 \/ Len(responses) = 1))
  /\ []((Done /\ allState.state = "rejected") =>
          /\ Len(responses) = 1
          /\ responses[1].status \in {400, 500}
          /\ nextCalls = 0)

\* a request that ended after a fault raised by an evaluation, answered with 500
C11_Witness ==
  /\ Done
  /\ allState.state = "rejected" /\ allState.reason.kind = "fault"
  /\ Len(responses) = 1 /\ responses[1].status = 500


\* C12: constraint evaluation is pure: two evaluations of the same input by the same
\* schema yield the same outcome (accepted with the same normalized value, or
\* rejected with the same violations), whenever they are performed.
C12_EvaluationPure ==
  (phase = "repeated") => outcome2.out = outcome1.out

\* the outcome holds a violation of the field `name`
HasIssueAt(out, name) ==
  /\ out.kind = "zod"
  /\ \E i \in 1..Len(out.issues) : out.issues[i].path = <<name>>

\* the input is an object whose key `name` holds a number
HasNumber(x, name) ==
  ParsedType(x) = "object" /\ HasKey(x, name) /\ ParsedType(Get(x, name)) = "number"

\* C13: with now the Unix time in whole seconds when loginSchema is evaluated, a
\* positive integer auth_date is accepted (no violation of auth_date, and the input
\* accepted when its other fields are valid) if and only if
\* now - 300 <= auth_date <= now + 60.
C13_AuthDateWindow ==
  (schemaName = "login" /\ phase # "input" /\ HasNumber(input, "auth_date")
     /\ Get(input, "auth_date").f = 0 /\ Get(input, "auth_date").v > 0) =>
    LET now == outcome1.at \div 1000
        authDate == Get(input, "auth_date").v
        inWindow == now - 300 <= authDate /\ authDate <= now + 60
    IN /\ ~HasIssueAt(outcome1.out, "auth_date") <=> inWindow
       /\ outcome1.out.kind = "ok" => inWindow

\* an accepted login whose auth_date is exactly now - 300
C13_Witness ==
  /\ schemaName = "login" /\ phase = "evaluated" /\ outcome1.out.kind = "ok"
  /\ Get(input, "auth_date") = Num(outcome1.at \div 1000 - 300)

\* update-user with height_cm = 10, weight_kg = 1000 and a malformed email
UpdateUserExample ==
  MakeObj([id |-> Num(1), email |-> Str(<<"a", "b">>), height_cm |-> Num(10),
           weight_kg |-> Num(1000)])

\* the place of the field `name` in the declaration order of the schema (0 for the
\* payload as a whole)
DeclarationIndex(shape, name) ==
  IF \E i \in 1..Len(shape) : shape[i].name = name
  THEN CHOOSE i \in 1..Len(shape) : shape[i].name = name
  ELSE 0

\* the example of C14 alone: three entries, for email, height_cm and weight_kg in
\* this order, and the first of them with abortEarly
UpdateUserExampleDetails ==
  (mode = "validate" /\ Done /\ schemas[TheTarget] = "updateUser"
     /\ raw[TheTarget] = UpdateUserExample) =>
    /\ Len(responses) = 1
    /\ IsValidationError(responses[1])
    /\ LET details == responses[1].body.error.details
       IN [i \in 1..Len(details) |-> details[i].field] =
            IF abortEarly THEN <<"email">> ELSE <<"email", "height_cm", "weight_kg">>

\* C14: update-user with height_cm = 10, weight_kg = 1000 and a malformed email is
\* answered with exactly 3 details entries, for email, height_cm and weight_kg in
\* this order; the details of validate are ordered by the declaration order of their
\* fields, and with abortEarly = true they are the one entry that is first in it.
C14_DetailsInDeclarationOrder ==
  (mode = "validate" /\ Done /\ schemas[TheTarget] \in RegistryNames
     /\ OutcomeOf(TheTarget).kind = "zod") =>
    LET shape == Shape(schemas[TheTarget])
        issues == OutcomeOf(TheTarget).issues
        details == responses[1].body.error.details
        at(i) == DeclarationIndex(shape, details[i].field)
    IN /\ UpdateUserExampleDetails
       /\ Len(responses) = 1
       /\ IsValidationError(responses[1])
       /\ \A i, j \in 1..Len(details) : i < j => at(i) <= at(j)
       /\ abortEarly =>
            /\ Len(details) = 1
            /\ \A k \in 1..Len(issues) :
                 at(1) <= DeclarationIndex(shape, Join(issues[k].path))

\* C15: the limit of paginationQuerySchema: "100" is accepted and normalizes to the
\* integer 100; "101", "0" and "abc" are rejected with a violation of the field limit;
\* an accepted limit always normalizes to an integer in 1..100.
C15_LimitBoundary ==
  (schemaName = "paginationQuery" /\ phase # "input" /\ ParsedType(input) = "object") =>
    LET limit == Get(input, "limit")
        out == outcome1.out
    IN /\ limit = Str(<<"1", "0", "0">>) =>
            /\ ~HasIssueAt(out, "limit")
            /\ out.kind = "ok" => Get(out.value, "limit") = Num(100)
       /\ limit \in {Str(<<"1", "0", "1">>), Str(<<"0">>), Str(<<"a", "b", "c">>)} =>
            HasIssueAt(out, "limit")
       /\ out.kind = "ok" =>
            /\ HasNumber(out.value, "limit")
            /\ Get(out.value, "limit").f = 0
            /\ Get(out.value, "limit").v \in 1..100

\* an accepted query whose limit "100" became the integer 100
C15_Witness ==
  /\ schemaName = "paginationQuery" /\ phase = "evaluated"
  /\ Get(input, "limit") = Str(<<"1", "0", "0">>)
  /\ outcome1.out.kind = "ok" /\ Get(outcome1.out.value, "limit") = Num(100)

\* C16: the defaults of paginationQuerySchema: a query with no page, no limit and no
\* order is normalized to page = 1 and limit = 10, both integers, and order = 'asc';
\* order accepts only 'asc' and 'desc'; nothing else is defaulted, an absent sortBy
\* stays absent.
C16_PaginationDefaults ==
  (schemaName = "paginationQuery" /\ phase # "input" /\ ParsedType(input) = "object") =>
    LET out == outcome1.out
        given == Get(input, "order")
    IN /\ (~HasKey(input, "page") /\ ~HasKey(input, "limit") /\ ~HasKey(input, "order")
             /\ ~HasIssueAt(out, "sortBy")) =>
            /\ out.kind = "ok"
            /\ Get(out.value, "page") = Num(1)
            /\ Get(out.value, "limit") = Num(10)
            /\ Get(out.value, "order") = Str(<<"a", "s", "c">>)
       /\ ParsedType(given) = "string" =>
            (~HasIssueAt(out, "order") <=>
               given \in {Str(<<"a", "s", "c">>), Str(<<"d", "e", "s", "c">>)})
       /\ (out.kind = "ok" /\ ~HasKey(input, "sortBy")) => ~HasKey(out.value, "sortBy")
       /\ out.kind = "ok" => DOMAIN out.value.v \subseteq {"page", "limit", "sortBy", "order"}

\* the empty query, normalized to the three defaults and nothing else
C16_Witness ==
  /\ schemaName = "paginationQuery" /\ phase = "evaluated" /\ input = EmptyObj
  /\ outcome1.out =
       Accept(Obj([page |-> Num(1), limit |-> Num(10), order |-> Str(<<"a", "s", "c">>)]))

\* C17: the normalized first_name of every accepted createUserSchema input is a
\* non-empty string of at most 100 characters with no whitespace at its start or
\* its end.
C17_FirstNameTrimmedNonEmpty ==
  (schemaName = "createUser" /\ phase # "input" /\ outcome1.out.kind = "ok") =>
    LET name == Get(outcome1.out.value, "first_name")
    IN /\ ParsedType(name) = "string"
       /\ name.v # <<>>
       /\ Len(name.v) <= 100
       /\ name.v[1] \notin Whitespace
       /\ name.v[Len(name.v)] \notin Whitespace

\* thousandths of a number, to compare it without fractions
Thousandths(n) == n.v * 1000 + n.f

\* C18: the numeric bounds of updateUserSchema: weight_kg is accepted exactly when
\* 20 <= weight_kg <= 300 (19.999 and 300.001 are rejected) and an integer height_cm
\* exactly when 50 <= height_cm <= 250 (49 and 251 are rejected).
C18_UpdateUserNumericBounds ==
  (schemaName = "updateUser" /\ phase # "input" /\ ParsedType(input) = "object") =>
    LET out == outcome1.out
        weight == Get(input, "weight_kg")
        height == Get(input, "height_cm")
    IN /\ ParsedType(weight) = "number" =>
            (~HasIssueAt(out, "weight_kg") <=>
               (20000 <= Thousandths(weight) /\ Thousandths(weight) <= 300000))
       /\ (ParsedType(height) = "number" /\ height.f = 0) =>
            (~HasIssueAt(out, "height_cm") <=> (50 <= height.v /\ height.v <= 250))
       /\ (out.kind = "ok" /\ ParsedType(weight) = "number") =>
            (20000 <= Thousandths(weight) /\ Thousandths(weight) <= 300000)
       /\ (out.kind = "ok" /\ ParsedType(height) = "number") =>
            (height.f = 0 /\ 50 <= height.v /\ height.v <= 250)

\* an accepted update with both numbers on a bound: weight_kg = 20 and height_cm = 250
C18_Witness ==
  /\ schemaName = "updateUser" /\ phase = "evaluated" /\ outcome1.out.kind = "ok"
  /\ Get(input, "weight_kg") = Num(20) /\ Get(input, "height_cm") = Num(250)
  /\ Get(outcome1.out.value, "weight_kg") = Num(20)
  /\ Get(outcome1.out.value, "height_cm") = Num(250)

C20_HashSyntactic ==
  (schemaName = "login" /\ phase # "input" /\ ParsedType(input) = "object"
     /\ ParsedType(Get(input, "hash")) = "string") =>
    LET hash == Get(input, "hash").v
        hex == {"0", "1", "2", "3", "4", "5", "6", "7", "8", "9",
                "a", "b", "c", "d", "e", "f"}
    IN ~HasIssueAt(outcome1.out, "hash") <=>
         (Len(hash) = 64 /\ \A i \in 1..Len(hash) : hash[i] \in hex)

\* a login rejected for its auth_date alone, its 64 hex characters passing the check
C20_Witness ==
  /\ schemaName = "login" /\ phase = "evaluated"
  /\ Get(input, "hash") = Str(Rep("a", 64))
  /\ HasIssueAt(outcome1.out, "auth_date") /\ ~HasIssueAt(outcome1.out, "hash")

\* the string is a decimal numeral of a positive integer: digits only, not all zero
DenotesPositiveInteger(s) ==
  /\ s # <<>>
  /\ \A i \in 1..Len(s) : s[i] \in Digits
  /\ DigitsPrefix(s, 0) > 0

\* C21: paginationQuerySchema accepts a page or limit string only if the whole string
\* denotes a positive integer ("12abc" and "1.5" are rejected), and the normalized
\* integer of an accepted string is the number the string denotes.
C21_WholeStringPositiveInteger ==
  (schemaName = "paginationQuery" /\ phase # "input" /\ outcome1.out.kind = "ok") =>
    \A k \in {"page", "limit"} :
      (HasKey(input, k) /\ ParsedType(Get(input, k)) = "string") =>
        /\ DenotesPositiveInteger(Get(input, k).v)
        /\ Get(outcome1.out.value, k) = Num(DigitsPrefix(Get(input, k).v, 0))

\* the part of C21 that holds: an accepted page or limit is normalized to the value
\* parseInt gives the string, a positive integer
C21_AcceptedIsParseInt ==
  (schemaName = "paginationQuery" /\ phase # "input" /\ outcome1.out.kind = "ok") =>
    \A k \in {"page", "limit"} :
      (HasKey(input, k) /\ ParsedType(Get(input, k)) = "string") =>
        /\ Get(outcome1.out.value, k) = ParseInt(Get(input, k).v)
        /\ Get(outcome1.out.value, k).f = 0
        /\ Get(outcome1.out.value, k).v > 0

\* C22: when every schema given to validateMultiple accepts its target, each provided
\* slot holds its own schema's normalized output, the slots without schema keep their
\* raw value, and next is called exactly once, after all the overwrites; with no
\* schema at all the request passes through unchanged.
C22_CommitsEachProvidedSlot ==
  (mode = "validateMultiple" /\ pc # "start" /\ FailingTargets = {}) =>
    /\ Done =>
         /\ nextCalls = 1
         /\ \A t \in Provided(schemas) : req[t] = OutcomeOf(t).value
    /\ nextCalls > 0 => \A t \in Provided(schemas) : req[t] = OutcomeOf(t).value
    /\ nextCalls = 0 => req = raw
    /\ \A t \in TargetSet \ Provided(schemas) : req[t] = raw[t]
    /\ (Done /\ Provided(schemas) = {}) => (req = raw /\ nextCalls = 1)

\* a request whose params and query were given schemas and accepted, its body given
\* none: next was called once, params and query hold different normalized outputs
\* that differ from what was received, and the body is as received
C22_Witness ==
  /\ mode = "validateMultiple" /\ Done /\ nextCalls = 1
  /\ Provided(schemas) = {"params", "query"}
  /\ FailingTargets = {}
  /\ req["params"] = OutcomeOf("params").value /\ req["params"] # raw["params"]
  /\ req["query"] = OutcomeOf("query").value /\ req["query"] # raw["query"]
  /\ req["params"] # req["query"]
  /\ req["body"] = raw["body"]

\* C23: the frame of validate(schema, target): the two slots other than the target
\* keep their raw values in every state, and when the schema's evaluation fails (with
\* violations or with another error) the target slot keeps its raw value as well.
C23_ValidateFrame ==
  (mode = "validate") =>
    /\ \A t \in TargetSet \ {TheTarget} : req[t] = raw[t]
    /\ (pc # "start" /\ OutcomeOf(TheTarget).kind # "ok") => req = raw

\* a query rejected by its schema and answered with 400, every slot as received
C23_Witness ==
  /\ mode = "validate" /\ Done /\ TheTarget = "query"
  /\ OutcomeOf("query").kind = "zod"
  /\ Len(responses) = 1 /\ responses[1].status = 400
  /\ nextCalls = 0
  /\ req = raw

\* the raw input found at `path` in a payload
RECURSIVE RawAt(_, _)
RawAt(payload, path) ==
  IF path = <<>> THEN payload
  ELSE IF ParsedType(payload) # "object" THEN Undefined
  ELSE RawAt(Get(payload, Head(path)), Tail(path))

\* the targets whose rejection is the one the middleware answered
AnsweredTargets ==
  {t \in Provided(schemas) : evals[t].state = "rejected" /\ evals[t].out = allState.reason}

\* the 400 response of a finished request whose schema evaluation was rejected
RejectionAnswered ==
  /\ Done /\ allState.state = "rejected" /\ allState.reason.kind = "zod"
  /\ Len(responses) = 1 /\ IsValidationError(responses[1])

\* C24: each details entry of a 400 response has the dot-joined path of the violated
\* field as its field and the violation's message; its value is omitted (undefined)
\* for a type mismatch and is the rejected raw input of the field for every other
\* violation.
C24_DetailsCarryRawValue ==
  RejectionAnswered =>
    LET issues == allState.reason.issues
        details == responses[1].body.error.details
    IN \A t \in AnsweredTargets : \A i \in 1..Len(details) :
         /\ details[i].field = Join(issues[i].path)
         /\ details[i].message = issues[i].message
         /\ details[i].value =
              IF issues[i].code = "invalid_type" THEN Undefined
              ELSE RawAt(raw[t], issues[i].path)

\* the part of C24 that holds: field and message are the violation's, the value is
\* omitted for a type mismatch, and a value that is present is the raw input of the
\* field (present for a value outside an enum)
C24_PresentValueIsRaw ==
  RejectionAnswered =>
    LET issues == allState.reason.issues
        details == responses[1].body.error.details
    IN \A t \in AnsweredTargets : \A i \in 1..Len(details) :
         /\ details[i].field = Join(issues[i].path)
         /\ details[i].message = issues[i].message
         /\ issues[i].code = "invalid_type" => details[i].value = Undefined
         /\ details[i].value # Undefined => details[i].value = RawAt(raw[t], issues[i].path)
         /\ issues[i].code = "invalid_enum_value" =>
              details[i].value = RawAt(raw[t], issues[i].path)

\* C25: for validate and validateMultiple, next and an error response are mutually
\* exclusive, a next callback that throws synchronously included: no response is sent
\* once next was called, and a response implies that no slot of the request was
\* replaced.
C25_NextExcludesResponse ==
  /\ ~(nextCalls > 0 /\ responses # <<>>)
  /\ responses # <<>> => req = raw

\* the part of C25 that holds: with a next callback that returns, next and a
\* response exclude each other, and a response implies an unchanged request
C25_ExclusiveWhenNextReturns ==
  ~nextThrew =>
    /\ ~(nextCalls > 0 /\ responses # <<>>)
    /\ responses # <<>> => req = raw

-----------------------------------------------------------------------------
(* The Express application: one request through the middleware stack *)

\* a string of a response or of an error, kept whole
Text(s) == [t |-> "string", v |-> s]

Methods == {"GET", "POST"}
Paths == {"/health", "/api", "/api/users", "/"}
\* the request's body as the body parsers find it
Bodies == {"none", "json", "malformed", "tooLarge"}

\* NODE_ENV as the application may be started: unset, the three usual values, and a
\* value that differs from 'development' in case only
ServerEnvs == NodeEnvs \cup {"test", "Development"}

\* the errors express.json() / express.urlencoded() pass to next(err)
ParserError(body) ==
  CASE body = "malformed" ->
         [message |-> Text("Unexpected token } in JSON at position 1"),
          stack |-> Text("SyntaxError: Unexpected token } in JSON at position 1\n    at JSON.parse")]
    [] body = "tooLarge" ->
         [message |-> Text("request entity too large"),
          stack |-> Text("PayloadTooLargeError: request entity too large\n    at readStream")]

\* process.env.NODE_ENV || 'development'
EnvironmentName(env) == IF env = "unset" THEN "development" ELSE env

\* app.get('/health', ...)
HealthResponse(env, clk) ==
  [status |-> 200,
   body |-> [success |-> TRUE,
             data |-> [status |-> "healthy",
                       timestamp |-> clk,
                       uptime |-> (clk - ClockStart) \div 1000,
                       environment |-> EnvironmentName(env)]]]

\* app.get('/api', ...)
ApiResponse ==
  [status |-> 200,
   body |-> [success |-> TRUE,
             data |-> [message |-> "WOD Tracker API",
                       version |-> "1.0.0",
                       endpoints |-> [auth |-> "/api/auth", users |-> "/api/users",
                                      workouts |-> "/api/workouts",
                                      communities |-> "/api/communities"]]]]

\* the 404 handler
NotFoundResponse ==
  [status |-> 404,
   body |-> [success |-> FALSE,
             error |-> [message |-> Text("Endpoint not found"), code |-> "NOT_FOUND"]]]

\* the global error handler with the stack spread in whenever NODE_ENV is not
\* 'production'
GlobalErrorHandlerStackUnlessProduction(err, env) ==
  [status |-> 500,
   body |-> [success |-> FALSE,
             error |-> IF env # "production"
                       THEN [message |-> err.message, code |-> "INTERNAL_ERROR",
                             stack |-> err.stack]
                       ELSE [message |-> Text("Internal server error"),
                             code |-> "INTERNAL_ERROR"]]]

\* the global error handler: res.status(500).json({...}); env is
\* process.env.NODE_ENV when the handler runs
GlobalErrorHandler(err, env) ==
  LET message == IF env = "production" THEN Text("Internal server error")
                 ELSE err.message
  IN [status |-> 500,
      body |-> [success |-> FALSE,
                error |-> IF env = "development"
                          THEN [message |-> message, code |-> "INTERNAL_ERROR",
                                stack |-> err.stack]
                          ELSE [message |-> message, code |-> "INTERNAL_ERROR"]]]

ServerInit ==
  /\ nodeEnv \in ServerEnvs
  /\ clock = ClockStart
  /\ GateIdle
  /\ RegistryIdle
  /\ stage = "received"
  /\ httpRequest \in [method : Methods, path : Paths, body : Bodies]
  /\ unhandled = Undefined
  /\ logs = 0
  /\ sent = <<>>

\* express.json() and express.urlencoded(): the body is parsed, or the parser's
\* error is passed on and Express skips to the error handler; the request logger is
\* in the stack only when the application was started with NODE_ENV 'development'
ParseBody ==
  /\ stage = "received"
  /\ IF httpRequest.body \in {"malformed", "tooLarge"}
     THEN /\ unhandled' = ParserError(httpRequest.body)
          /\ stage' = "error"
     ELSE /\ unhandled' = unhandled
          /\ stage' = IF nodeEnv = "development" THEN "logging" ELSE "routing"
  /\ UNCHANGED <<nodeEnv, clock, gateVars, registryVars, httpRequest, logs, sent>>

\* the request logger: console.log(...); next()
LogRequest ==
  /\ stage = "logging"
  /\ logs' = logs + 1
  /\ stage' = "routing"
  /\ UNCHANGED <<nodeEnv, clock, gateVars, registryVars, httpRequest, unhandled, sent>>

\* the routes, then the 404 handler for what no route matched
Route ==
  /\ stage = "routing"
  /\ sent' = Append(sent,
       IF httpRequest.method = "GET" /\ httpRequest.path = "/health"
       THEN HealthResponse(nodeEnv, clock)
       ELSE IF httpRequest.method = "GET" /\ httpRequest.path = "/api"
       THEN ApiResponse
       ELSE NotFoundResponse)
  /\ stage' = "done"
  /\ UNCHANGED <<nodeEnv, clock, gateVars, registryVars, httpRequest, unhandled, logs>>

\* app.use((err, _req, res, _next) => ...)
HandleError ==
  /\ stage = "error"
  /\ sent' = Append(sent, GlobalErrorHandler(unhandled, nodeEnv))
  /\ stage' = "done"
  /\ UNCHANGED <<nodeEnv, clock, gateVars, registryVars, httpRequest, unhandled, logs>>

ServerNext == Tick \/ ParseBody \/ LogRequest \/ Route \/ HandleError

ServerSpec == ServerInit /\ [][ServerNext]_vars

\* the global error handler has answered the request
ErrorAnswered == stage = "done" /\ unhandled # Undefined

\* C26: the global error handler always answers with status 500 and code
\* 'INTERNAL_ERROR'; the message is the error's own message unless NODE_ENV is
\* 'production', where it is the fixed text 'Internal server error'; the stack is
\* included exactly when NODE_ENV is 'development', so with NODE_ENV unset the raw
\* message is returned and no stack.
C26_GlobalErrorHandler ==
  ErrorAnswered =>
    /\ Len(sent) = 1
    /\ sent[1].status = 500
    /\ sent[1].body.success = FALSE
    /\ sent[1].body.error.code = "INTERNAL_ERROR"
    /\ sent[1].body.error.message =
         (IF nodeEnv = "production" THEN Text("Internal server error")
          ELSE unhandled.message)
    /\ ("stack" \in DOMAIN sent[1].body.error) <=> (nodeEnv = "development")
    /\ nodeEnv = "development" => sent[1].body.error.stack = unhandled.stack
    /\ DOMAIN sent[1].body.error \subseteq {"message", "code", "stack"}

\* a malformed JSON body with NODE_ENV unset: 500, the parser's own message, no stack
C26_Witness ==
  /\ ErrorAnswered /\ nodeEnv = "unset" /\ httpRequest.body = "malformed"
  /\ sent[1].status = 500
  /\ sent[1].body.error =
       [message |-> Text("Unexpected token } in JSON at position 1"),
        code |-> "INTERNAL_ERROR"]

=============================================================================
